---------------------------- MODULE Spec2Model ----------------------------
(***************************************************************************)
(* Model of the OCR-engine wrapper in src/main.py: the temp-file scope     *)
(* (save / cleanup), the process runner (run_tesseract, timeout_manager,   *)
(* kill, get_errors), the output reader (_read_output and its two          *)
(* callers), the CLI entry point (main) and the text parsers               *)
(* (file_to_dict, osd_to_dict).                                            *)
(*                                                                         *)
(* Specifications.                                                         *)
(*  - Spec: one call of an entry point, from save to cleanup.              *)
(*  - TextSpec: one call of a text parser.                                 *)
(*  - ArgSpec: the argument vector run_tesseract builds.                   *)
(*  - ConcSpec: two invocations of run_and_get_output that overlap.        *)
(*  - LoopSpec: the loading of the module, lines 573-584.                  *)
(*                                                                         *)
(* Reading conventions.                                                    *)
(*  - save and timeout_manager are generator functions that the code uses  *)
(*    in `with` statements (lines 208, 234, 264); they are modelled under  *)
(*    the contextlib.contextmanager protocol imported on line 13: the body *)
(*    up to the yield is the entry, the `finally` runs on every exit.      *)
(*    src/main.py itself carries no @contextmanager line above them.       *)
(*  - Names the file uses but never defines (DEFAULT_ENCODING, OSD_KEYS,   *)
(*    SUPPORTED_FORMATS, Image, LOGGER, EXTENTION_TO_CONFIG, lang in       *)
(*    run_and_get_multiple_output) are modelled from spec.md.              *)
(*  - Text and byte strings are sequences: a text is a sequence of         *)
(*    one-character strings, a byte string a sequence of byte values.      *)
(*  - An optional value (None or v) is the sequence << >> or << v >>.      *)
(***************************************************************************)
EXTENDS Integers, Sequences, FiniteSets, TLC

VARIABLES
    entry,        \* which function the caller invoked
    argv,         \* sys.argv (main only)
    config,       \* the caller's config string (extra engine flags)
    spawns,       \* how many times the call has invoked Popen
    image,        \* the image argument: a path, or an in-memory image
    extensions,   \* requested extension(s), a sequence of extension names
    return_bytes, \* the caller's return_bytes flag
    timeout,      \* seconds; 0 = unbounded
    tmpdir,       \* directory NamedTemporaryFile creates files in
    fs,           \* the file system: path -> content (bytes)
    fs0,          \* the file system when the call started
    temp_name,    \* save's f.name, optional
    proc,         \* the Popen object and the engine process behind it
    calls,        \* methods invoked on the Popen object, in order
    reads,        \* paths _read_output has opened, in order
    outcome,      \* how the library call ended: a return or the exception
    result,       \* the value returned, optional
    ret,          \* main's return value (optional: << >> is None)
    escaped,      \* main ended by an exception it did not catch
    printed,      \* what main printed to standard output, optional
    pc,           \* position of the call
    text_call,    \* a parser call: the function and its arguments
    text_result,  \* what the parser returned or raised, optional
    text_again,   \* the parse of the re-serialized result, optional
    cmd_call,     \* a call of run_tesseract: its arguments and the platform
    cmd_result,   \* the argument vector it built (or what it raised), optional
    conc,         \* two overlapping invocations: each one's position and names
    conc_fs,      \* the file system they share: path -> the invocation it belongs to
    conc_events,  \* accesses by one invocation to a file of the other
    loop_pc,      \* loading the module: position in the loop of lines 573-584
    children,     \* the child processes the loop has spawned, in order
    elapsed,      \* clock ticks the current process.wait has lasted
    loop_error    \* errno of the exception that ended the loading, optional

\* the variables of an engine run, and those of a parser call
run_vars == << entry, argv, config, spawns, image, extensions, return_bytes, timeout, tmpdir,
               fs, fs0, temp_name, proc, calls, reads, outcome, result, ret,
               escaped, printed, pc >>
text_vars == << text_call, text_result, text_again >>
cmd_vars == << cmd_call, cmd_result >>
\* everything but the variables of an engine run
conc_vars == << conc, conc_fs, conc_events >>
loop_vars == << loop_pc, children, elapsed, loop_error >>
other_vars == << text_vars, cmd_vars, conc_vars, loop_vars >>
vars == << run_vars, other_vars >>

-----------------------------------------------------------------------------
(* Bounds of the model *)

\* number of random characters NamedTemporaryFile appends to the prefix
RandLen == 1
\* most columns of a delimited table, most data rows, most lines of OSD text
MaxCols == 2
MaxDataRows == 2
MaxOsdLines == 2

-----------------------------------------------------------------------------
(* Program constants *)

\* errno.ENOENT (line 15)
ENOENT == 2
\* the code passed to kill() when the timeout fires (line 90)
TimeoutCode == -1

None == << >>
Some(v) == << v >>

-----------------------------------------------------------------------------
(* Small input sets *)

RandChars == {"a", "b"}
RandNames == [1..RandLen -> RandChars]
\* a plain directory name, and one holding glob metacharacters
TempDirs == { <<"t">>, <<"[", "t", "]">> }
Exts == {"txt", "pdf", "hocr"}
ExtLists == { <<"txt">>, <<"hocr">>, <<"pdf", "txt">>, <<"txt", "hocr">> }
\* in-memory images: their declared format (<< >>: none declared)
Images == { [kind |-> "image", format |-> None],
            [kind |-> "image", format |-> Some("JPEG")],
            [kind |-> "image", format |-> Some("XCF")] }
PathImage == [kind |-> "path", format |-> None]
Errnos == {ENOENT, 13}
ExitCodes == {0, 1, -6}
Bytes == {10, 32, 101}
\* captured stderr: empty, one line, padded lines, a blank line between lines
ErrStrings == { << >>, <<101>>, <<32, 101, 10>>, <<101, 10, 101>>,
                <<101, 10, 10, 101, 32>>, <<10, 32>> }
Timeouts == {0, 5}
\* config strings of an engine run: none, a flag, a quote never closed
RunConfigs == { << >>, <<"-", "c", " ", "x">>, <<"'", "a">> }
Contents == { << >>, <<101>> }
Argvs == { <<"prog", "in.png">>, <<"prog", "-l", "eng", "in.png">>,
           <<"prog">>, <<"prog", "-x", "eng", "in.png">>,
           <<"prog", "a", "b">> }


-----------------------------------------------------------------------------
(* Text helpers *)

Whitespace == {" ", "\n", "\t"}

\* index of the first element of s that is in set S, 0 when there is none
FirstIn(s, S) ==
    IF \E i \in 1..Len(s) : s[i] \in S
    THEN CHOOSE i \in 1..Len(s) : s[i] \in S /\ \A j \in 1..(i - 1) : s[j] \notin S
    ELSE 0

\* index of the last element of s that is not in set S, 0 when there is none
LastNotIn(s, S) ==
    IF \E i \in 1..Len(s) : s[i] \notin S
    THEN CHOOSE i \in 1..Len(s) :
             s[i] \notin S /\ \A j \in (i + 1)..Len(s) : s[j] \in S
    ELSE 0

\* str.strip(): leading and trailing whitespace removed
Strip(s) ==
    LET last == LastNotIn(s, Whitespace)
        first == IF last = 0 THEN 0
                 ELSE CHOOSE i \in 1..Len(s) :
                          s[i] \notin Whitespace
                          /\ \A j \in 1..(i - 1) : s[j] \in Whitespace
    IN  IF last = 0 THEN << >> ELSE SubSeq(s, first, last)

RECURSIVE Split(_, _)
\* str.split(sep) for a one-character separator: always at least one piece
Split(s, sep) ==
    LET k == FirstIn(s, {sep})
    IN  IF k = 0 THEN << s >>
        ELSE << SubSeq(s, 1, k - 1) >> \o Split(SubSeq(s, k + 1, Len(s)), sep)

\* str.splitlines(): like split on the line break, without a final empty line
SplitLines(s) ==
    LET pieces == Split(s, "\n")
    IN  IF pieces[Len(pieces)] = << >>
        THEN SubSeq(pieces, 1, Len(pieces) - 1)
        ELSE pieces

RECURSIVE Join(_, _)
\* sep.join(pieces)
Join(sep, pieces) ==
    IF pieces = << >> THEN << >>
    ELSE IF Len(pieces) = 1 THEN pieces[1]
    ELSE pieces[1] \o sep \o Join(sep, Tail(pieces))

\* bytes.decode(DEFAULT_ENCODING) on the bytes of the model
Chr(b) == CASE b = 10 -> "\n" [] b = 32 -> " " [] b = 101 -> "e" [] OTHER -> "?"
Decode(bs) == [i \in 1..Len(bs) |-> Chr(bs[i])]

\* a plausible slip: the lines are joined without the separator
GetErrorsNoSeparator(error_string) ==
    Strip(Join(<< >>, SplitLines(Decode(error_string))))

get_errors(error_string) ==
    Strip(Join(<<" ">>, SplitLines(Decode(error_string))))

-----------------------------------------------------------------------------
(* shlex.split, as line 193 calls it *)

\* shlex: whitespace, quotes, the escape character, the quotes inside which
\* the escape character works (posix mode)
ShWhitespace == {" ", "\t", "\n"}
ShQuotes == {"\"", "'"}
ShEscape == {"\\"}
ShEscapedQuotes == {"\""}

ShRaised == [raised |-> "ValueError", tokens |-> << >>]

RECURSIVE ShlexRead(_, _, _, _, _, _, _)
\* shlex.read_token, called until the input ends, with whitespace_split on
\* and no comment characters: s is the unread input, state / token / quoted
\* / escapedstate the lexer's fields, tokens what was emitted so far
ShlexRead(s, posix, state, token, quoted, escapedstate, tokens) ==
    LET emit == token # << >> \/ (posix /\ quoted)
        \* the token ends here: the next one starts in state ' '
        Break(rest) ==
            ShlexRead(rest, posix, " ", << >>, FALSE, " ", Append(tokens, token))
    IN  IF s = << >>
        THEN IF state \in ShQuotes \cup ShEscape THEN ShRaised
             ELSE [raised |-> "none",
                   tokens |-> IF emit THEN Append(tokens, token) ELSE tokens]
        ELSE LET c == Head(s)
                 rest == Tail(s)
             IN  IF state = " "
                 THEN IF c \in ShWhitespace
                      THEN (IF emit THEN Break(rest)
                            ELSE ShlexRead(rest, posix, state, token, quoted,
                                           escapedstate, tokens))
                      ELSE IF posix /\ c \in ShEscape
                      THEN ShlexRead(rest, posix, c, token, quoted, "a", tokens)
                      ELSE IF c \in ShQuotes
                      THEN ShlexRead(rest, posix, c,
                                     IF posix THEN token ELSE << c >>,
                                     quoted, escapedstate, tokens)
                      ELSE ShlexRead(rest, posix, "a", << c >>, quoted,
                                     escapedstate, tokens)
                 ELSE IF state \in ShQuotes
                 THEN IF c = state
                      THEN (IF posix
                            THEN ShlexRead(rest, posix, "a", token, TRUE,
                                           escapedstate, tokens)
                            ELSE ShlexRead(rest, posix, " ", << >>, FALSE, " ",
                                           Append(tokens, Append(token, c))))
                      ELSE IF posix /\ c \in ShEscape /\ state \in ShEscapedQuotes
                      THEN ShlexRead(rest, posix, c, token, TRUE, state, tokens)
                      ELSE ShlexRead(rest, posix, state, Append(token, c), TRUE,
                                     escapedstate, tokens)
                 ELSE IF state \in ShEscape
                 THEN ShlexRead(rest, posix, escapedstate,
                                IF escapedstate \in ShQuotes /\ c # state
                                   /\ c # escapedstate
                                THEN token \o << state, c >>
                                ELSE Append(token, c),
                                quoted, escapedstate, tokens)
                 ELSE \* state 'a': inside a word
                      IF c \in ShWhitespace
                      THEN (IF emit THEN Break(rest)
                            ELSE ShlexRead(rest, posix, " ", token, quoted,
                                           escapedstate, tokens))
                      ELSE IF posix /\ c \in ShQuotes
                      THEN ShlexRead(rest, posix, c, token, quoted,
                                     escapedstate, tokens)
                      ELSE IF posix /\ c \in ShEscape
                      THEN ShlexRead(rest, posix, c, token, quoted, "a", tokens)
                      ELSE ShlexRead(rest, posix, state, Append(token, c),
                                     quoted, escapedstate, tokens)

\* shlex.split(s, posix=posix): the tokens, or ValueError (no closing
\* quotation, no escaped character)
ShlexSplit(s, posix) == ShlexRead(s, posix, " ", << >>, FALSE, " ", << >>)

-----------------------------------------------------------------------------
(* Files *)

Path(dir, name) == [dir |-> dir, name |-> name]

RECURSIVE FnMatch(_, _)
\* fnmatch of one path component: '*' is any run of characters, '[...]' one
\* character of a non-empty class, a '[' without a closing ']' is literal
FnMatch(p, s) ==
    IF p = << >> THEN s = << >>
    ELSE IF p[1] = "*"
    THEN FnMatch(Tail(p), s) \/ (s # << >> /\ FnMatch(p, Tail(s)))
    ELSE LET close == IF p[1] = "[" /\ Len(p) >= 3
                      THEN FirstIn(SubSeq(p, 3, Len(p)), {"]"}) ELSE 0
         IN  IF close > 0
             THEN /\ s # << >>
                  /\ \E i \in 2..(close + 1) : p[i] = s[1]
                  /\ FnMatch(SubSeq(p, close + 3, Len(p)), Tail(s))
             ELSE /\ s # << >>
                  /\ s[1] = p[1]
                  /\ FnMatch(Tail(p), Tail(s))

\* iglob(pattern): the existing paths whose components match the pattern's
Glob(files, pattern) ==
    { f \in DOMAIN files : FnMatch(pattern.dir, f.dir) /\ FnMatch(pattern.name, f.name) }

Restrict(files, keep) == [f \in keep |-> files[f]]

\* cleanup(temp_name): every path iglob(temp_name + '*') lists is removed
cleanup(files, name) ==
    IF name = None THEN files
    ELSE Restrict(files,
             DOMAIN files \ Glob(files, Path(name[1].dir, name[1].name \o <<"*">>)))

\* the files whose name starts with base's name, in base's directory
IsPrefix(s, t) == Len(s) <= Len(t) /\ SubSeq(t, 1, Len(s)) = s
StartingWith(files, base) ==
    { f \in DOMAIN files : f.dir = base.dir /\ IsPrefix(base.name, f.name) }

WithFile(files, path, content) ==
    [f \in DOMAIN files \cup {path} |-> IF f = path THEN content ELSE files[f]]

\* f'{base}{extsep}{extension}'
OutputPath(base, extension) == Path(base.dir, base.name \o <<".", extension>>)


-----------------------------------------------------------------------------
(* Values and outcomes *)

\* formats prepare() accepts
SUPPORTED_FORMATS == {"JPEG", "PNG", "PBM", "PGM", "PPM", "TIFF", "BMP", "GIF", "WEBP"}

\* extensions whose output is always read as bytes (line 250)
BinaryExtensions == {"pdf", "hocr"}

NoOutcome == [kind |-> "none", status |-> None, message |-> << >>]
Returned == [kind |-> "return", status |-> None, message |-> << >>]
Raised(kind) == [kind |-> kind, status |-> None, message |-> << >>]
\* OSError carrying an errno
RaisedOSError(errno) == [kind |-> "OSError", status |-> Some(errno), message |-> << >>]
\* TesseractError(status, message), lines 41-45
TesseractError(status, message) ==
    [kind |-> "TesseractError", status |-> Some(status), message |-> message]
\* the exception classes that derive from OSError (EnvironmentError)
OSErrorKinds == {"OSError", "FileNotFoundError", "TesseractNotFoundError"}

\* no call of run_tesseract on its own is under way
NoCall == [platform |-> "none"]
\* no pair of overlapping invocations is under way
ConcIdle == conc = << >> /\ conc_fs = << >> /\ conc_events = {}
\* the module is not being loaded
LoopIdle ==
    loop_pc = "idle" /\ children = << >> /\ elapsed = 0 /\ loop_error = << >>

\* errno: the errno of the OSError Popen raised, when it raised one
NoProc == [state |-> "none", errno |-> None, exitcode |-> None,
           returncode |-> None, stderr |-> << >>, open |-> {}]

\* _read_output(filename, return_bytes) on an existing file
read_output(files, path, as_bytes) ==
    IF as_bytes THEN [type |-> "bytes", data |-> files[path]]
    ELSE [type |-> "str", data |-> Decode(files[path])]

\* prepare(image): the extension the input file gets, or none when it raises
prepare(img) ==
    LET extension == IF img.format = None THEN "PNG" ELSE img.format[1]
    IN  IF extension \in SUPPORTED_FORMATS THEN Some(extension) ELSE None

-----------------------------------------------------------------------------
(* The end of a call: the exception (or return) leaves the `with save(...)`  *)
(* block, whose finally runs cleanup, and reaches the caller; in main it     *)
(* passes the except clauses of lines 556-561 first.                         *)

\* a plausible slip: main catches every exception
MainResultCatchAll(oc) ==
    IF oc.kind = "return" THEN [ret |-> None, escaped |-> FALSE]
    ELSE [ret |-> Some(1), escaped |-> FALSE]

\* main, lines 553-561: what main does with the outcome of the try block
MainResult(oc) ==
    IF oc.kind = "return" THEN [ret |-> None, escaped |-> FALSE]
    ELSE IF oc.kind \in OSErrorKinds THEN [ret |-> Some(1), escaped |-> FALSE]
    ELSE [ret |-> None, escaped |-> TRUE]

Finish(oc, files, name, value) ==
    /\ fs' = cleanup(files, name)
    /\ pc' = "done"
    /\ outcome' = oc
    /\ result' = IF oc.kind = "return" THEN value ELSE None
    /\ IF entry = "main"
       THEN /\ ret' = MainResult(oc).ret
            /\ escaped' = MainResult(oc).escaped
            /\ printed' = IF oc.kind = "return" THEN value ELSE None
       ELSE UNCHANGED << ret, escaped, printed >>

-----------------------------------------------------------------------------
(* Initial states: one call of one of the three entry points *)

Foreign == Path(tmpdir, <<"tess_", "b">>)

Init ==
    /\ entry \in {"main", "run_and_get_output", "run_and_get_multiple_output"}
    /\ tmpdir \in TempDirs
    /\ IF entry = "main"
       THEN /\ argv \in Argvs
            /\ image = PathImage
            /\ extensions = <<"txt">>
            /\ return_bytes = FALSE
            /\ timeout = 0
       ELSE /\ argv = << >>
            /\ image \in Images \cup {PathImage}
            /\ extensions \in IF entry = "run_and_get_output"
                              THEN { <<e>> : e \in Exts } ELSE ExtLists
            /\ return_bytes \in BOOLEAN
            /\ timeout \in Timeouts
    /\ config \in IF entry = "run_and_get_output" THEN RunConfigs ELSE { << >> }
    /\ spawns = 0
    /\ fs = [f \in {Foreign} |-> << >>]
    /\ fs0 = fs
    /\ temp_name = None
    /\ proc = NoProc
    /\ calls = << >>
    /\ reads = << >>
    /\ outcome = NoOutcome
    /\ result = None
    /\ ret = None
    /\ escaped = FALSE
    /\ printed = None
    /\ pc = IF entry = "main" THEN "main" ELSE "save"
    /\ text_call = [fn |-> "none"]
    /\ text_result = None
    /\ text_again = None
    /\ cmd_call = NoCall
    /\ cmd_result = None
    /\ ConcIdle
    /\ LoopIdle

-----------------------------------------------------------------------------
(* main, lines 544-554: the argument check and Image.open *)

UsageOk(args) == Len(args) = 2 \/ (Len(args) = 4 /\ args[2] = "-l")

MainUsage ==
    /\ pc = "main"
    /\ ~UsageOk(argv)
    /\ ret' = Some(2)
    /\ pc' = "done"
    /\ UNCHANGED << entry, argv, config, spawns, image, extensions, return_bytes, timeout,
                    tmpdir, fs, fs0, temp_name, proc, calls, reads, outcome,
                    result, escaped, printed >>
    /\ UNCHANGED other_vars

\* Image.open(filename) raises an OSError (no such file, not an image)
MainOpenFails ==
    /\ pc = "main"
    /\ UsageOk(argv)
    /\ outcome' = Raised("FileNotFoundError")
    /\ ret' = MainResult(Raised("FileNotFoundError")).ret
    /\ escaped' = MainResult(Raised("FileNotFoundError")).escaped
    /\ pc' = "done"
    /\ UNCHANGED << entry, argv, config, spawns, image, extensions, return_bytes, timeout,
                    tmpdir, fs, fs0, temp_name, proc, calls, reads, result,
                    printed >>
    /\ UNCHANGED other_vars

\* Image.open(filename) returns an image, handed to image_to_string
MainOpen ==
    /\ pc = "main"
    /\ UsageOk(argv)
    /\ \E img \in Images : image' = img
    /\ pc' = "save"
    /\ UNCHANGED << entry, argv, config, spawns, extensions, return_bytes, timeout, tmpdir,
                    fs, fs0, temp_name, proc, calls, reads, outcome, result,
                    ret, escaped, printed >>
    /\ UNCHANGED other_vars

-----------------------------------------------------------------------------
(* save, lines 136-147: the entry of the `with save(image)` block *)

SaveEnter ==
    /\ pc = "save"
    /\ \E r \in RandNames :
         LET f == Path(tmpdir, <<"tess_">> \o r)
             created == WithFile(fs, f, << >>)
         IN  /\ f \notin DOMAIN fs
             /\ temp_name' = Some(f)
             /\ IF image.kind = "path"
                THEN /\ fs' = created
                     /\ pc' = "spawn"
                     /\ UNCHANGED << outcome, result, ret, escaped, printed >>
                ELSE IF prepare(image) = None
                THEN Finish(Raised("TypeError"), created, Some(f), None)
                ELSE /\ fs' = WithFile(created,
                                Path(tmpdir, f.name \o <<"_input", ".", prepare(image)[1]>>),
                                <<101>>)
                     /\ pc' = "spawn"
                     /\ UNCHANGED << outcome, result, ret, escaped, printed >>
    /\ UNCHANGED << entry, argv, config, spawns, image, extensions, return_bytes, timeout,
                    tmpdir, fs0, proc, calls, reads >>
    /\ UNCHANGED other_vars


-----------------------------------------------------------------------------
(* run_tesseract, lines 200-206: the spawn *)

\* a plausible slip: the errno test inverted
SpawnErrorInverted(errno) ==
    IF errno # ENOENT THEN Raised("TesseractNotFoundError") ELSE RaisedOSError(errno)

\* lines 202-206: what a Popen OSError becomes
SpawnError(errno) ==
    IF errno # ENOENT THEN RaisedOSError(errno) ELSE Raised("TesseractNotFoundError")

\* line 193: shlex.split accepts the config on every platform's rules
ConfigAccepted(c) ==
    c = << >> \/ \A posix \in BOOLEAN : ShlexSplit(c, posix).raised = "none"

\* lines 192-193: shlex.split raises on the config; the exception leaves
\* run_tesseract before Popen is reached
ConfigRejected ==
    /\ pc = "spawn"
    /\ config # << >>
    /\ \E posix \in BOOLEAN : ShlexSplit(config, posix).raised # "none"
    /\ Finish(Raised("ValueError"), fs, temp_name, None)
    /\ UNCHANGED << entry, argv, config, spawns, image, extensions, return_bytes,
                    timeout, tmpdir, fs0, temp_name, proc, calls, reads >>
    /\ UNCHANGED other_vars

PopenFails ==
    /\ pc = "spawn"
    /\ ConfigAccepted(config)
    /\ spawns' = spawns + 1
    /\ \E errno \in Errnos :
         /\ proc' = [NoProc EXCEPT !.errno = Some(errno)]
         /\ Finish(SpawnError(errno), fs, temp_name, None)
    /\ UNCHANGED << entry, argv, config, image, extensions, return_bytes, timeout,
                    tmpdir, fs0, temp_name, calls, reads >>
    /\ UNCHANGED other_vars

\* subprocess_args(): stdin, stdout and stderr are pipes
Popen ==
    /\ pc = "spawn"
    /\ ConfigAccepted(config)
    /\ spawns' = spawns + 1
    /\ proc' = [NoProc EXCEPT !.state = "running",
                              !.open = {"stdin", "stdout", "stderr"}]
    /\ pc' = "wait"
    /\ UNCHANGED << entry, argv, config, image, extensions, return_bytes, timeout,
                    tmpdir, fs, fs0, temp_name, calls, reads, outcome, result,
                    ret, escaped, printed >>
    /\ UNCHANGED other_vars

-----------------------------------------------------------------------------
(* The engine process: it may write any of the requested output files, and  *)
(* it exits with some code, having written something to stderr.             *)

EngineWrite ==
    /\ proc.state = "running"
    /\ \E i \in 1..Len(extensions), c \in Contents :
         /\ OutputPath(temp_name[1], extensions[i]) \notin DOMAIN fs
         /\ fs' = WithFile(fs, OutputPath(temp_name[1], extensions[i]), c)
    /\ UNCHANGED << entry, argv, config, spawns, image, extensions, return_bytes, timeout,
                    tmpdir, fs0, temp_name, proc, calls, reads, outcome,
                    result, ret, escaped, printed, pc >>
    /\ UNCHANGED other_vars

EngineExit ==
    /\ proc.state = "running"
    /\ \E code \in ExitCodes, err \in ErrStrings :
         proc' = [proc EXCEPT !.state = "exited", !.exitcode = Some(code),
                              !.stderr = err]
    /\ UNCHANGED << entry, argv, config, spawns, image, extensions, return_bytes, timeout,
                    tmpdir, fs, fs0, temp_name, calls, reads, outcome, result,
                    ret, escaped, printed, pc >>
    /\ UNCHANGED other_vars

-----------------------------------------------------------------------------
(* The output reader, lines 212-216, and its two callers, 247-253, 276-279 *)

\* the return_bytes flag each caller passes for an extension
AsBytes(ext) ==
    IF entry = "run_and_get_multiple_output"
    THEN (IF ext \in BinaryExtensions THEN TRUE ELSE return_bytes)
    ELSE return_bytes

OutputPaths == [i \in 1..Len(extensions) |-> OutputPath(temp_name[1], extensions[i])]

\* index of the first expected output file that does not exist, 0 if none
FirstMissing(files) ==
    IF \E i \in 1..Len(extensions) : OutputPaths[i] \notin DOMAIN files
    THEN CHOOSE i \in 1..Len(extensions) :
             /\ OutputPaths[i] \notin DOMAIN files
             /\ \A j \in 1..(i - 1) : OutputPaths[j] \in DOMAIN files
    ELSE 0

\* the value the entry point returns once every output file was read
ReadValue(files) ==
    IF entry = "run_and_get_multiple_output"
    THEN [i \in 1..Len(extensions) |->
              read_output(files, OutputPaths[i], AsBytes(extensions[i]))]
    ELSE read_output(files, OutputPaths[1], AsBytes(extensions[1]))

\* the rest of the call after run_tesseract returned normally
ReadOutputs ==
    LET miss == FirstMissing(fs)
    IN  IF miss = 0
        THEN /\ reads' = OutputPaths
             /\ Finish(Returned, fs, temp_name, Some(ReadValue(fs)))
        ELSE /\ reads' = SubSeq(OutputPaths, 1, miss)
             /\ Finish(Raised("FileNotFoundError"), fs, temp_name, None)

-----------------------------------------------------------------------------
(* timeout_manager, lines 81-95, with the body of the `with` on lines       *)
(* 208-210, and kill, lines 66-76                                           *)

\* a plausible slip: the finally leaves stderr to the garbage collector
CloseStreamsNotStderr(p) == [p EXCEPT !.open = p.open \ {"stdin", "stdout"}]

\* the finally of timeout_manager, lines 92-95
close_streams(p) == [p EXCEPT !.open = p.open \ {"stdin", "stdout", "stderr"}]

\* proc.communicate() on a process that has exited: it is reaped, and the
\* pipes communicate() has drained are closed by it
communicate(p) == [p EXCEPT !.returncode = p.exitcode, !.open = {}]

\* a plausible slip: only positive codes count as failures
PositiveCodeIsError(code) == code > 0

\* line 209: `if proc.returncode:`
returncode_is_error(code) == code # 0

\* proc.communicate() returned: the process has exited by itself
Communicate ==
    /\ pc = "wait"
    /\ proc.state = "exited"
    /\ calls' = Append(calls, "communicate")
    /\ proc' = close_streams(communicate(proc))
    /\ IF returncode_is_error(proc.exitcode[1])
       THEN /\ Finish(TesseractError(proc.exitcode[1], get_errors(proc.stderr)),
                      fs, temp_name, None)
            /\ UNCHANGED reads
       ELSE ReadOutputs
    /\ UNCHANGED << entry, argv, config, spawns, image, extensions, return_bytes, timeout,
                    tmpdir, fs0, temp_name >>
    /\ UNCHANGED other_vars

\* proc.communicate(timeout=seconds) raised TimeoutExpired; kill() begins:
\* process.terminate(), then process.wait(1)
TimeoutExpired ==
    /\ pc = "wait"
    /\ timeout > 0
    /\ proc.state = "running"
    /\ calls' = calls \o <<"communicate", "terminate", "wait">>
    /\ pc' = "killwait"
    /\ UNCHANGED << entry, argv, config, spawns, image, extensions, return_bytes, timeout,
                    tmpdir, fs, fs0, temp_name, proc, reads, outcome, result,
                    ret, escaped, printed >>
    /\ UNCHANGED other_vars

\* a plausible slip: kill() keeps the code wait() found
KillKeepCode(p, code) ==
    [p EXCEPT !.state = "exited",
              !.returncode = IF p.state = "exited" THEN p.exitcode ELSE Some(code)]

\* kill(), lines 66-76, from its finally on: process.kill(), then
\* process.returncode = code
kill(p, code) ==
    [p EXCEPT !.state = "exited", !.returncode = Some(code)]

\* process.wait(1) returned or timed out; the finally of kill(), then
\* line 91 raises and the finally of timeout_manager closes the streams
KillAndRaise ==
    /\ pc = "killwait"
    /\ calls' = Append(calls, "kill")
    /\ proc' = close_streams(kill(proc, TimeoutCode))
    /\ Finish(Raised("RuntimeError"), fs, temp_name, None)
    /\ UNCHANGED << entry, argv, config, spawns, image, extensions, return_bytes, timeout,
                    tmpdir, fs0, temp_name, reads >>
    /\ UNCHANGED other_vars

-----------------------------------------------------------------------------

Next ==
    \/ MainUsage
    \/ MainOpenFails
    \/ MainOpen
    \/ SaveEnter
    \/ ConfigRejected
    \/ PopenFails
    \/ Popen
    \/ EngineWrite
    \/ EngineExit
    \/ Communicate
    \/ TimeoutExpired
    \/ KillAndRaise

Spec == Init /\ [][Next]_vars


-----------------------------------------------------------------------------
(* Claims about the temp-file scope, the process runner, the output reader  *)
(* and main, all under Spec                                                 *)

Done == pc = "done"
\* the timeout fired during this call
TimedOut == \E i \in 1..Len(calls) : calls[i] = "terminate"
\* the engine was spawned, exited by itself and was reaped by communicate()
ExitedByItself == proc.exitcode # None /\ ~TimedOut /\ proc.returncode # None

SpaceJoined(text) == [i \in 1..Len(text) |-> IF text[i] = "\n" THEN " " ELSE text[i]]
\* m is text without its leading and trailing whitespace
IsTrimOf(m, text) ==
    /\ m = << >> \/ (m[1] \notin Whitespace /\ m[Len(m)] \notin Whitespace)
    /\ \E i \in 1..(Len(text) + 1) :
         /\ i + Len(m) - 1 <= Len(text)
         /\ m = SubSeq(text, i, i + Len(m) - 1)
         /\ \A j \in 1..Len(text) :
              (j < i \/ j > i + Len(m) - 1) => text[j] \in Whitespace

C4_SpawnFailure ==
    proc.errno # None =>
        /\ Done
        /\ proc.state = "none"
        /\ calls = << >>
        /\ reads = << >>
        /\ result = None
        /\ IF proc.errno[1] = ENOENT
           THEN outcome = Raised("TesseractNotFoundError")
           ELSE outcome = RaisedOSError(proc.errno[1])

C4_Witness == Done /\ proc.errno # None /\ proc.errno # Some(ENOENT)

Entered == temp_name # None /\ outcome.kind # "TypeError"
\* what happened in the call: Popen raised / the engine exited by itself and
\* was reaped / the timeout fired
SpawnFailed == proc.errno # None
Completed == ExitedByItself
\* how many of the three happened
Happened ==
    (IF SpawnFailed THEN 1 ELSE 0) + (IF Completed THEN 1 ELSE 0)
    + (IF TimedOut THEN 1 ELSE 0)
\* the outcome the caller sees is the one that belongs to what happened
OutcomeMatches ==
    /\ SpawnFailed => outcome = SpawnError(proc.errno[1])
    /\ (Completed /\ proc.exitcode = Some(0)) =>
           /\ outcome.kind \in {"return", "FileNotFoundError"}
           /\ reads # << >>
    /\ (Completed /\ proc.exitcode # Some(0)) =>
           outcome = TesseractError(proc.exitcode[1], get_errors(proc.stderr))
    /\ TimedOut => outcome = Raised("RuntimeError")

-----------------------------------------------------------------------------
(* Numbers in text: int(), float(), str.isdigit() on the characters of the  *)
(* model (digits, sign, point, inf, nan; no exponent part)                  *)

Digits == {"0", "1", "2", "3", "4", "5", "6", "7", "8", "9"}
DigitVal(c) ==
    CASE c = "0" -> 0 [] c = "1" -> 1 [] c = "2" -> 2 [] c = "3" -> 3
      [] c = "4" -> 4 [] c = "5" -> 5 [] c = "6" -> 6 [] c = "7" -> 7
      [] c = "8" -> 8 [] c = "9" -> 9

AllDigits(s) == \A i \in 1..Len(s) : s[i] \in Digits

RECURSIVE DigitsToInt(_)
DigitsToInt(ds) ==
    IF ds = << >> THEN 0
    ELSE DigitsToInt(SubSeq(ds, 1, Len(ds) - 1)) * 10 + DigitVal(ds[Len(ds)])

\* str.isdigit()
IsDigit(s) == s # << >> /\ AllDigits(s)

\* float(text): surrounding whitespace is ignored, then an optional sign and
\* inf, infinity, nan or digits with an optional point; kind "invalid" is
\* the ValueError; trunc is the value truncated toward zero, frac its
\* fraction digits
ParseFloat(t) ==
    LET s == Strip(t)
        signed == s # << >> /\ s[1] \in {"+", "-"}
        body == IF signed THEN Tail(s) ELSE s
        dot == FirstIn(body, {"."})
        ip == IF dot = 0 THEN body ELSE SubSeq(body, 1, dot - 1)
        fp == IF dot = 0 THEN << >> ELSE SubSeq(body, dot + 1, Len(body))
        sign == IF signed /\ s[1] = "-" THEN -1 ELSE 1
    IN  IF body \in { <<"i", "n", "f">>, <<"i", "n", "f", "i", "n", "i", "t", "y">> }
        THEN [kind |-> "inf", sign |-> sign, trunc |-> 0, frac |-> << >>]
        ELSE IF body = <<"n", "a", "n">>
        THEN [kind |-> "nan", sign |-> 1, trunc |-> 0, frac |-> << >>]
        ELSE IF AllDigits(ip) /\ AllDigits(fp) /\ Len(ip) + Len(fp) > 0
        THEN [kind |-> "finite", sign |-> sign, trunc |-> sign * DigitsToInt(ip),
              frac |-> SubSeq(fp, 1, LastNotIn(fp, {"0"}))]
        ELSE [kind |-> "invalid", sign |-> 1, trunc |-> 0, frac |-> << >>]

\* typed values: a cell is an int, a float or a text; a float is held as
\* its sign, its integer part and its fraction digits (or inf, nan)
IntVal(n) == [type |-> "int", int |-> n, text |-> << >>]
StrVal(t) == [type |-> "str", int |-> 0, text |-> t]
FloatVal(pf) ==
    [type |-> "float", int |-> pf.trunc,
     text |-> (IF pf.sign < 0 THEN <<"-">> ELSE << >>)
              \o (IF pf.kind = "finite" THEN pf.frac ELSE <<pf.kind>>)]

-----------------------------------------------------------------------------
(* file_to_dict, lines 281-313 *)

\* lines 304-307: val = int(float(cell)), the cell itself on ValueError;
\* int() of an infinite float raises OverflowError, which nothing catches
Convert(cell) ==
    LET pf == ParseFloat(cell)
    IN  IF pf.kind = "finite" THEN [raised |-> "none", val |-> IntVal(pf.trunc)]
        ELSE IF pf.kind = "inf" THEN [raised |-> "OverflowError", val |-> StrVal(cell)]
        ELSE [raised |-> "none", val |-> StrVal(cell)]

\* line 283: the rows of the stripped text, each split on the delimiter
Rows(tsv, cell_delimiter) ==
    LET lines == Split(Strip(tsv), "\n")
    IN  [i \in 1..Len(lines) |-> Split(lines[i], cell_delimiter)]

\* lines 287-292: the data rows, the last one padded once when it is short
DataRows(rows) ==
    LET data == Tail(rows)
        n == Len(data)
    IN  IF Len(data[n]) < Len(rows[1])
        THEN [data EXCEPT ![n] = Append(data[n], << >>)]
        ELSE data

\* lines 294-295
StrCol(str_col_idx, length) ==
    IF str_col_idx < 0 THEN str_col_idx + length ELSE str_col_idx

\* result[key] = values: a new key goes last, a known key keeps its place
DictPut(d, key, values) ==
    IF \E i \in 1..Len(d) : d[i].key = key
    THEN [i \in 1..Len(d) |-> IF d[i].key = key
                              THEN [key |-> key, values |-> values] ELSE d[i]]
    ELSE Append(d, [key |-> key, values |-> values])

\* lines 299-311 for column i (counted from 0): the cells of the rows that
\* reach the column, converted unless it is the string column
ColumnCells(data, i) ==
    LET Reaches(row) == Len(row) > i
        rows == SelectSeq(data, Reaches)
    IN  [r \in 1..Len(rows) |-> rows[r][i + 1]]

ColumnValues(data, i, str_col) ==
    LET cells == ColumnCells(data, i)
    IN  [r \in 1..Len(cells) |->
            IF i # str_col THEN Convert(cells[r]).val ELSE StrVal(cells[r])]

ColumnRaises(data, i, str_col) ==
    /\ i # str_col
    /\ \E r \in 1..Len(ColumnCells(data, i)) :
           Convert(ColumnCells(data, i)[r]).raised # "none"

RECURSIVE FillDict(_, _, _, _, _)
\* lines 297-311: the columns i, i+1, ... in header order
FillDict(d, header, data, i, str_col) ==
    IF i >= Len(header) THEN d
    ELSE FillDict(DictPut(d, header[i + 1], ColumnValues(data, i, str_col)),
                  header, data, i + 1, str_col)

file_to_dict(tsv, cell_delimiter, str_col_idx) ==
    LET rows == Rows(tsv, cell_delimiter)
    IN  IF Len(rows) < 2 THEN [raised |-> "none", dict |-> << >>]
        ELSE LET header == rows[1]
                 data == DataRows(rows)
                 str_col == StrCol(str_col_idx, Len(header))
             IN  IF \E i \in 0..(Len(header) - 1) : ColumnRaises(data, i, str_col)
                 THEN [raised |-> "OverflowError", dict |-> << >>]
                 ELSE [raised |-> "none",
                       dict |-> FillDict(<< >>, header, data, 0, str_col)]


-----------------------------------------------------------------------------
(* osd_to_dict, lines 328-333, and is_valid, lines 315-326 *)

\* the recognized keys, each with its target field and type
OSD_KEYS ==
    { [key |-> <<"Orientation", " ", "in", " ", "degrees">>,
       field |-> "orientation", type |-> "int"],
      [key |-> <<"Orientation", " ", "confidence">>,
       field |-> "orientation_conf", type |-> "float"],
      [key |-> <<"Script">>, field |-> "script", type |-> "str"] }

HasOsdKey(k) == \E e \in OSD_KEYS : e.key = k
OsdKey(k) == CHOOSE e \in OSD_KEYS : e.key = k

\* index of the first occurrence of the sequence sep in s, 0 when none
FindSeq(s, sep) ==
    LET At(i) == i + Len(sep) - 1 <= Len(s) /\ SubSeq(s, i, i + Len(sep) - 1) = sep
    IN  IF \E i \in 1..Len(s) : At(i)
        THEN CHOOSE i \in 1..Len(s) : At(i) /\ \A j \in 1..(i - 1) : ~At(j)
        ELSE 0

RECURSIVE SplitOn(_, _)
\* str.split(sep) for a separator of several characters
SplitOn(s, sep) ==
    LET k == FindSeq(s, sep)
    IN  IF k = 0 THEN << s >>
        ELSE << SubSeq(s, 1, k - 1) >> \o SplitOn(SubSeq(s, k + Len(sep), Len(s)), sep)

is_valid(val, type) ==
    IF type = "int" THEN IsDigit(val)
    ELSE IF type = "float" THEN ParseFloat(val).kind # "invalid"
    ELSE TRUE

\* OSD_KEYS[key][1](val): the value converted to the key's type
OsdValue(val, type) ==
    IF type = "int" THEN IntVal(DigitsToInt(val))
    ELSE IF type = "float" THEN FloatVal(ParseFloat(val))
    ELSE StrVal(val)

OsdPairs(osd) ==
    LET lines == Split(osd, "\n")
    IN  [i \in 1..Len(lines) |-> SplitOn(lines[i], <<":", " ">>)]

\* line 332: OSD_KEYS[kv[0]] is looked up for every line of two parts, and
\* the lookup of an unknown key raises KeyError
OsdLineRaises(kv) == Len(kv) = 2 /\ ~HasOsdKey(kv[1])
OsdLineKept(kv) ==
    Len(kv) = 2 /\ HasOsdKey(kv[1]) /\ is_valid(kv[2], OsdKey(kv[1]).type)

RECURSIVE FillOsd(_, _, _)
FillOsd(d, pairs, i) ==
    IF i > Len(pairs) THEN d
    ELSE FillOsd(IF OsdLineKept(pairs[i])
                 THEN DictPut(d, OsdKey(pairs[i][1]).field,
                              OsdValue(pairs[i][2], OsdKey(pairs[i][1]).type))
                 ELSE d,
                 pairs, i + 1)

osd_to_dict(osd) ==
    LET pairs == OsdPairs(osd)
    IN  IF \E i \in 1..Len(pairs) : OsdLineRaises(pairs[i])
        THEN [raised |-> "KeyError", dict |-> << >>]
        ELSE [raised |-> "none", dict |-> FillOsd(<< >>, pairs, 1)]

-----------------------------------------------------------------------------
(* Parser calls: the inputs, and one action per function *)

HeaderNames == { <<"a">>, <<"b">> }
CellTexts == { << >>, <<"1", ".", "5">>, <<"-", "7">>, <<"x">>, <<"i", "n", "f">> }
Delimiters == {"\t", " "}
StrColIdxs == {-1, 0}
SeqsUpTo(S, lo, hi) == UNION { [1..n -> S] : n \in lo..hi }
Headers == SeqsUpTo(HeaderNames, 1, MaxCols)
TableRows == SeqsUpTo(SeqsUpTo(CellTexts, 1, MaxCols), 0, MaxDataRows)

OsdLines ==
    { <<"Orientation", " ", "in", " ", "degrees", ":", " ", "0">>,
      <<"Orientation", " ", "in", " ", "degrees", ":", " ", "x">>,
      <<"Orientation", " ", "confidence", ":", " ", "1", ".", "5">>,
      <<"Orientation", " ", "confidence", ":", " ", "x">>,
      <<"Script", ":", " ", "Latin">>,
      <<"Script", ":", " ", "a", ":", " ", "b">>,
      <<"Script">>,
      <<"f", "o", "o", ":", " ", "1">>,
      << >> }

\* the text of a table: cells joined by the delimiter, rows by line breaks
TableText(header, rows, cell_delimiter) ==
    LET all == << header >> \o rows
    IN  Join(<<"\n">>, [i \in 1..Len(all) |-> Join(<<cell_delimiter>>, all[i])])

TextInit ==
    /\ entry = "none" /\ argv = << >> /\ config = << >> /\ spawns = 0
    /\ image = PathImage
    /\ extensions = << >> /\ return_bytes = FALSE /\ timeout = 0
    /\ tmpdir = <<"t">> /\ fs = << >> /\ fs0 = << >> /\ temp_name = None
    /\ proc = NoProc /\ calls = << >> /\ reads = << >>
    /\ outcome = NoOutcome /\ result = None /\ ret = None
    /\ escaped = FALSE /\ printed = None /\ pc = "idle"
    /\ \/ \E header \in Headers, rows \in TableRows, d \in Delimiters,
            idx \in StrColIdxs :
            text_call = [fn |-> "file_to_dict", header |-> header, rows |-> rows,
                         text |-> TableText(header, rows, d),
                         cell_delimiter |-> d, str_col_idx |-> idx]
       \/ \E lines \in SeqsUpTo(OsdLines, 0, MaxOsdLines) :
            text_call = [fn |-> "osd_to_dict", header |-> << >>, rows |-> << >>,
                         text |-> Join(<<"\n">>, lines),
                         cell_delimiter |-> "\n", str_col_idx |-> 0]
    /\ text_result = None
    /\ text_again = None
    /\ cmd_call = NoCall
    /\ cmd_result = None
    /\ ConcIdle
    /\ LoopIdle

CallFileToDict ==
    /\ text_call.fn = "file_to_dict"
    /\ text_result = None
    /\ text_result' = Some(file_to_dict(text_call.text, text_call.cell_delimiter,
                                        text_call.str_col_idx))
    /\ UNCHANGED << run_vars, cmd_vars, conc_vars, loop_vars, text_call, text_again >>

CallOsdToDict ==
    /\ text_call.fn = "osd_to_dict"
    /\ text_result = None
    /\ text_result' = Some(osd_to_dict(text_call.text))
    /\ UNCHANGED << run_vars, cmd_vars, conc_vars, loop_vars, text_call, text_again >>

RECURSIVE NatText(_)
\* str(n) for n >= 0
NatText(n) ==
    LET digit == CHOOSE c \in Digits : DigitVal(c) = n % 10
    IN  IF n < 10 THEN << digit >> ELSE Append(NatText(n \div 10), digit)

\* str(value) of a typed cell value
ValueText(v) ==
    IF v.type = "int"
    THEN (IF v.int < 0 THEN <<"-">> \o NatText(-v.int) ELSE NatText(v.int))
    ELSE v.text

\* every column of the result holds n values
Rectangular(d, n) == \A j \in 1..Len(d) : Len(d[j].values) = n

\* the result written back as text: its keys as the header, then row r holds
\* the r-th value of every column
DictText(d, n, cell_delimiter) ==
    TableText([j \in 1..Len(d) |-> d[j].key],
              [r \in 1..n |-> [j \in 1..Len(d) |-> ValueText(d[j].values[r])]],
              cell_delimiter)

\* the result of a file_to_dict call is written back and parsed again
Reparse ==
    /\ text_call.fn = "file_to_dict"
    /\ text_result # None
    /\ text_again = None
    /\ text_result[1].raised = "none"
    /\ text_result[1].dict # << >>
    /\ Rectangular(text_result[1].dict, Len(text_result[1].dict[1].values))
    /\ text_again' =
         Some(file_to_dict(DictText(text_result[1].dict,
                                    Len(text_result[1].dict[1].values),
                                    text_call.cell_delimiter),
                           text_call.cell_delimiter, text_call.str_col_idx))
    /\ UNCHANGED << run_vars, cmd_vars, conc_vars, loop_vars, text_call, text_result >>

TextNext == CallFileToDict \/ CallOsdToDict \/ Reparse

TextSpec == TextInit /\ [][TextNext]_vars


-----------------------------------------------------------------------------
(* Claims about the parsers, under TextSpec *)

OsdReturned == text_call.fn = "osd_to_dict" /\ text_result # None
TableReturned == text_call.fn = "file_to_dict" /\ text_result # None
\* the rows file_to_dict sees in the text of the call
CallRows == Rows(text_call.text, text_call.cell_delimiter)
Distinct(s) == \A i, j \in 1..Len(s) : s[i] = s[j] => i = j

\* C6: osd_to_dict never raises, and its result holds exactly the lines
\* 'key: value' whose key is recognized and whose value is valid for the
\* key's type, each under the key's field name and converted to that type.
C6_OsdWhitelist ==
    OsdReturned =>
        LET pairs == OsdPairs(text_call.text)
            d == text_result[1].dict
            Good(i) == /\ Len(pairs[i]) = 2
                       /\ HasOsdKey(pairs[i][1])
                       /\ is_valid(pairs[i][2], OsdKey(pairs[i][1]).type)
        IN  /\ text_result[1].raised = "none"
            /\ \A j \in 1..Len(d) : \E i \in 1..Len(pairs) :
                   /\ Good(i)
                   /\ d[j].key = OsdKey(pairs[i][1]).field
                   /\ d[j].values = OsdValue(pairs[i][2], OsdKey(pairs[i][1]).type)
            /\ \A i \in 1..Len(pairs) :
                   Good(i) => \E j \in 1..Len(d) : d[j].key = OsdKey(pairs[i][1]).field

\* C7: for a text with a header row and at least one data row, file_to_dict
\* does not raise and returns one entry per header column, in header order,
\* the entry of column i holding one value for each data row with more than
\* i cells, the last data row counted with one empty cell appended when it
\* is shorter than the header.
C7_OneEntryPerColumn ==
    (TableReturned /\ Len(CallRows) >= 2) =>
        LET header == CallRows[1]
            data == DataRows(CallRows)
            d == text_result[1].dict
        IN  /\ text_result[1].raised = "none"
            /\ Len(d) = Len(header)
            /\ \A j \in 1..Len(d) :
                   /\ d[j].key = header[j]
                   /\ Len(d[j].values) =
                          Cardinality({ r \in 1..Len(data) : Len(data[r]) > j - 1 })

\* C8: the string column is str_col_idx, or str_col_idx plus the number of
\* header columns when negative; its cells stay text, and every other cell
\* becomes the truncated integer of its float value when it has one and
\* stays text otherwise, whatever the cell holds, without the call raising.
C8_CellCoercion ==
    (TableReturned /\ Len(CallRows) >= 2 /\ Distinct(CallRows[1])) =>
        LET header == CallRows[1]
            data == DataRows(CallRows)
            d == text_result[1].dict
            idx == text_call.str_col_idx
            str_col == IF idx >= 0 THEN idx ELSE idx + Len(header)
            Expected(c, i) ==
                IF i # str_col /\ ParseFloat(c).kind = "finite"
                THEN IntVal(ParseFloat(c).trunc) ELSE StrVal(c)
        IN  /\ text_result[1].raised = "none"
            /\ Len(d) = Len(header)
            /\ \A j \in 1..Len(d) :
                   d[j].values = [r \in 1..Len(ColumnCells(data, j - 1)) |->
                                      Expected(ColumnCells(data, j - 1)[r], j - 1)]

\* the table of the call is well-formed: distinct header names, at least one
\* data row, every row as long as the header
WellFormed ==
    /\ text_call.fn = "file_to_dict"
    /\ Distinct(text_call.header)
    /\ text_call.rows # << >>
    /\ \A r \in 1..Len(text_call.rows) : Len(text_call.rows[r]) = Len(text_call.header)

\* C9: on a well-formed table, the parse holds the rows of the text (each
\* cell as text in the string column, as its integer or text elsewhere), and
\* parsing the re-serialized result gives the same result again.
C9_RoundTrip ==
    (WellFormed /\ text_result # None) =>
        LET header == text_call.header
            rows == text_call.rows
            d == text_result[1].dict
            str_col == StrCol(text_call.str_col_idx, Len(header))
        IN  /\ text_result[1].raised = "none"
            /\ Len(d) = Len(header)
            /\ \A j \in 1..Len(d) :
                   /\ d[j].key = header[j]
                   /\ Len(d[j].values) = Len(rows)
                   /\ \A r \in 1..Len(rows) :
                          ValueText(d[j].values[r]) =
                              IF j - 1 # str_col /\ ParseFloat(rows[r][j]).kind = "finite"
                              THEN ValueText(IntVal(ParseFloat(rows[r][j]).trunc))
                              ELSE rows[r][j]
            /\ text_again # None => text_again = text_result

-----------------------------------------------------------------------------
(* run_tesseract, lines 181-198: the argument vector.  str.split and str()  *)
(* are modelled by what they do on the characters of the model.             *)

RECURSIVE SplitWords(_)
\* str.split() without a separator: the maximal runs of non-whitespace
SplitWords(s) ==
    LET first == IF \E i \in 1..Len(s) : s[i] \notin Whitespace
                 THEN CHOOSE i \in 1..Len(s) :
                          s[i] \notin Whitespace
                          /\ \A j \in 1..(i - 1) : s[j] \in Whitespace
                 ELSE 0
        from == SubSeq(s, first, Len(s))
        stop == FirstIn(from, Whitespace)
    IN  IF first = 0 THEN << >>
        ELSE IF stop = 0 THEN << from >>
        ELSE << SubSeq(from, 1, stop - 1) >>
             \o SplitWords(SubSeq(from, stop + 1, Len(from)))

\* str(n) of an integer
IntText(n) == IF n < 0 THEN <<"-">> \o NatText(-n) ELSE NatText(n)

\* tesseract_cmd, line 29
tesseract_cmd == <<"t", "e", "s", "s", "e", "r", "a", "c", "t">>
\* the extension tokens the engine is not given, line 196
ImpliedExtensions == { <<"b", "o", "x">>, <<"o", "s", "d">>, <<"t", "s", "v">>,
                       <<"x", "m", "l">> }

RECURSIVE AppendExtensions(_, _)
\* the loop of lines 195-197
AppendExtensions(args, tokens) ==
    IF tokens = << >> THEN args
    ELSE AppendExtensions(IF Head(tokens) \notin ImpliedExtensions
                          THEN Append(args, Head(tokens)) ELSE args,
                          Tail(tokens))

\* a plausible slip: the language pair is put before the engine command
CmdArgsLangFirst(call) ==
    LET not_windows == ~(call.platform = "win32")
        a1 == IF not_windows /\ call.nice # 0
              THEN << <<"n", "i", "c", "e">>, <<"-", "n">>, IntText(call.nice) >>
              ELSE << >>
        a2 == IF call.lang # None THEN a1 \o << <<"-", "l">>, call.lang[1] >> ELSE a1
        a3 == a2 \o << tesseract_cmd, call.input_filename, call.output_filename_base >>
        split == ShlexSplit(call.config, not_windows)
        a4 == IF call.config # << >> THEN a3 \o split.tokens ELSE a3
    IN  IF call.config # << >> /\ split.raised # "none"
        THEN [raised |-> split.raised, cmd_args |-> << >>]
        ELSE [raised |-> "none",
              cmd_args |-> AppendExtensions(a4, SplitWords(call.extension))]

\* lines 181-197: cmd_args as run_tesseract hands it to Popen, or the
\* exception shlex.split raised on the way
cmd_args(call) ==
    LET not_windows == ~(call.platform = "win32")
        a1 == IF not_windows /\ call.nice # 0
              THEN << <<"n", "i", "c", "e">>, <<"-", "n">>, IntText(call.nice) >>
              ELSE << >>
        a2 == a1 \o << tesseract_cmd, call.input_filename, call.output_filename_base >>
        a3 == IF call.lang # None THEN a2 \o << <<"-", "l">>, call.lang[1] >> ELSE a2
        split == ShlexSplit(call.config, not_windows)
        a4 == IF call.config # << >> THEN a3 \o split.tokens ELSE a3
    IN  IF call.config # << >> /\ split.raised # "none"
        THEN [raised |-> split.raised, cmd_args |-> << >>]
        ELSE [raised |-> "none",
              cmd_args |-> AppendExtensions(a4, SplitWords(call.extension))]

\* sys.platform
Platforms == {"linux", "win32"}
Nices == {0, 5, -3}
Langs == {None, Some(<<"e", "n", "g">>)}
\* config: empty, plain flags, a quoted value, an escaped space, an opening
\* quote never closed, blanks only, an empty quoted token
Configs == { << >>,
             <<"-", "c", " ", "x">>,
             <<"-", "c", " ", "\"", "a", " ", "b", "\"">>,
             <<"a", "\\", " ", "b">>,
             <<"'", "a">>,
             <<" ">>,
             <<"x", " ", "'", "'">> }
\* extension: one token, several, implied ones, none, extra blanks
ExtensionTexts == { <<"t", "x", "t">>,
                    <<"p", "d", "f", " ", "t", "x", "t">>,
                    <<"b", "o", "x">>,
                    <<"t", "s", "v", " ", "h", "o", "c", "r">>,
                    << >>,
                    <<" ", "t", "x", "t", "\t", " ", "o", "s", "d", " ">> }
CmdCalls ==
    [platform : Platforms, nice : Nices, lang : Langs, config : Configs,
     extension : ExtensionTexts,
     input_filename : { <<"i", ".", "p", "n", "g">> },
     output_filename_base : { <<"t", "e", "s", "s", "_", "a">> }]

ArgInit ==
    /\ entry = "none" /\ argv = << >> /\ config = << >> /\ spawns = 0
    /\ image = PathImage
    /\ extensions = << >> /\ return_bytes = FALSE /\ timeout = 0
    /\ tmpdir = <<"t">> /\ fs = << >> /\ fs0 = << >> /\ temp_name = None
    /\ proc = NoProc /\ calls = << >> /\ reads = << >>
    /\ outcome = NoOutcome /\ result = None /\ ret = None
    /\ escaped = FALSE /\ printed = None /\ pc = "idle"
    /\ text_call = [fn |-> "none"] /\ text_result = None /\ text_again = None
    /\ cmd_call = NoCall
    /\ cmd_result = None
    /\ ConcIdle
    /\ LoopIdle

\* run_tesseract is called and has built cmd_args (line 198)
BuildCmdArgs ==
    /\ \E call \in CmdCalls :
         /\ cmd_call' = call
         /\ cmd_result' = Some(cmd_args(call))
    /\ UNCHANGED << run_vars, text_vars, conc_vars, loop_vars >>

ArgNext == BuildCmdArgs

ArgSpec == ArgInit /\ [][ArgNext]_vars

\* the parts of the vector, each stated on its own
NicePrefix(call) ==
    IF call.platform # "win32" /\ call.nice # 0
    THEN << <<"n", "i", "c", "e">>, <<"-", "n">>, IntText(call.nice) >>
    ELSE << >>
LangPair(call) ==
    IF call.lang = None THEN << >> ELSE << <<"-", "l">>, call.lang[1] >>
ConfigTokens(call) ==
    IF call.config = << >> THEN << >>
    ELSE ShlexSplit(call.config, call.platform # "win32").tokens
ExtensionTokens(call) ==
    SelectSeq(SplitWords(call.extension), LAMBDA t : t \notin ImpliedExtensions)

\* the vector of the last call is the one the claim describes
ArgumentOrder ==
    cmd_result # None =>
        IF cmd_result[1].raised = "none"
        THEN cmd_result[1].cmd_args =
                 NicePrefix(cmd_call)
                 \o << tesseract_cmd, cmd_call.input_filename,
                       cmd_call.output_filename_base >>
                 \o LangPair(cmd_call)
                 \o ConfigTokens(cmd_call)
                 \o ExtensionTokens(cmd_call)
        ELSE /\ cmd_call.config # << >>
             /\ ShlexSplit(cmd_call.config, cmd_call.platform # "win32").raised # "none"

\* a call with the inputs of the call before it gives the same outcome
SameInputsSameVector ==
    (cmd_result # None /\ cmd_call' = cmd_call) => cmd_result' = cmd_result

\* C11: whenever run_tesseract has built its argument vector, the vector is,
\* in this order: nice, -n, str(nice) when the platform is not win32 and nice
\* is not 0; the engine command, the input path, the output base; -l and
\* lang when lang is not None; the shlex tokens of a non-empty config (posix
\* rules off win32, non-posix rules on win32); the whitespace-separated
\* tokens of extension other than box, osd, tsv, xml, in their order.  No
\* vector is built only when shlex.split rejects the config.  A call with
\* the same inputs as the one before it builds the same vector.
C11_ArgumentVector == []ArgumentOrder /\ [][SameInputsSameVector]_vars

C11_Witness ==
    /\ cmd_result # None
    /\ cmd_result[1].raised = "none"
    /\ cmd_call.platform = "linux" /\ cmd_call.nice = -3 /\ cmd_call.lang # None
    /\ cmd_call.config = <<"-", "c", " ", "\"", "a", " ", "b", "\"">>
    /\ cmd_call.extension = <<"t", "s", "v", " ", "h", "o", "c", "r">>
    /\ Len(cmd_result[1].cmd_args) = 3 + 3 + 2 + 2 + 1
    /\ cmd_result[1].cmd_args[10] = <<"a", " ", "b">>
    /\ cmd_result[1].cmd_args[11] = <<"h", "o", "c", "r">>

-----------------------------------------------------------------------------
(* Two invocations of run_and_get_output that overlap in time (two threads, *)
(* or two processes, each with its own temp directory setting), sharing one *)
(* file system.  Each step below is one file-system operation of lines      *)
(* 136-147, 103-110, 201 and 276-279.                                       *)

Invocations == {1, 2}
ConcImages == { PathImage, [kind |-> "image", format |-> Some("JPEG")] }

\* no engine run, no parser call, no run_tesseract call under way
RunIdle ==
    /\ entry = "none" /\ argv = << >> /\ config = << >> /\ spawns = 0
    /\ image = PathImage
    /\ extensions = << >> /\ return_bytes = FALSE /\ timeout = 0
    /\ tmpdir = <<"t">> /\ fs = << >> /\ fs0 = << >> /\ temp_name = None
    /\ proc = NoProc /\ calls = << >> /\ reads = << >>
    /\ outcome = NoOutcome /\ result = None /\ ret = None
    /\ escaped = FALSE /\ printed = None /\ pc = "idle"
TextIdle == text_call = [fn |-> "none"] /\ text_result = None /\ text_again = None
CmdIdle == cmd_call = NoCall /\ cmd_result = None

ConcInit ==
    /\ RunIdle /\ TextIdle /\ CmdIdle
    /\ conc \in [Invocations ->
                   { [pc |-> "save", tmpdir |-> d, image |-> im,
                      temp_name |-> None, outcome |-> "none"] :
                     d \in TempDirs, im \in ConcImages }]
    /\ conc_fs = << >>
    /\ conc_events = {}
    /\ LoopIdle

\* the accesses of kind k by invocation i to those of the paths that belong
\* to the other invocation while that one is still running
Accesses(i, k, paths) ==
    { [actor |-> i, kind |-> k, path |-> p] :
        p \in { q \in paths \cap DOMAIN conc_fs :
                  conc_fs[q] # i /\ conc[conc_fs[q]].pc # "done" } }

\* lines 138-145: NamedTemporaryFile creates a file no one else has (O_EXCL);
\* for an image object image.save writes the _input file beside it
ConcSave(i) ==
    /\ conc[i].pc = "save"
    /\ \E r \in RandNames :
         LET f == Path(conc[i].tmpdir, <<"tess_">> \o r)
             created == WithFile(conc_fs, f, i)
             input == Path(f.dir, f.name \o <<"_input", ".", prepare(conc[i].image)[1]>>)
         IN  /\ f \notin DOMAIN conc_fs
             /\ conc' = [conc EXCEPT ![i].temp_name = Some(f), ![i].pc = "spawn"]
             /\ IF conc[i].image.kind = "path"
                THEN /\ conc_fs' = created
                     /\ UNCHANGED conc_events
                ELSE /\ conc_fs' = WithFile(created, input, i)
                     /\ conc_events' = conc_events \cup Accesses(i, "overwrite", {input})
    /\ UNCHANGED << run_vars, text_vars, cmd_vars, loop_vars >>

\* lines 200-210: the run ends with an exception (spawn failure, nonzero
\* exit, timeout), which leaves the `with save(...)` block
ConcRunFails(i) ==
    /\ conc[i].pc = "spawn"
    /\ \E e \in {"OSError", "TesseractError", "RuntimeError"} :
         conc' = [conc EXCEPT ![i].pc = "cleanup", ![i].outcome = e]
    /\ UNCHANGED << conc_fs, conc_events >>
    /\ UNCHANGED << run_vars, text_vars, cmd_vars, loop_vars >>

\* the engine runs to exit code 0 and has written its output file
ConcRun(i) ==
    /\ conc[i].pc = "spawn"
    /\ conc' = [conc EXCEPT ![i].pc = "read"]
    /\ conc_fs' = WithFile(conc_fs, OutputPath(conc[i].temp_name[1], "txt"), i)
    /\ conc_events' = conc_events
           \cup Accesses(i, "overwrite", {OutputPath(conc[i].temp_name[1], "txt")})
    /\ UNCHANGED << run_vars, text_vars, cmd_vars, loop_vars >>

\* lines 276-279: _read_output opens the output file
ConcRead(i) ==
    /\ conc[i].pc = "read"
    /\ conc' = [conc EXCEPT ![i].pc = "cleanup",
                            ![i].outcome =
                                IF OutputPath(conc[i].temp_name[1], "txt") \in DOMAIN conc_fs
                                THEN "return" ELSE "FileNotFoundError"]
    /\ conc_events' = conc_events
           \cup Accesses(i, "read", {OutputPath(conc[i].temp_name[1], "txt")})
    /\ UNCHANGED conc_fs
    /\ UNCHANGED << run_vars, text_vars, cmd_vars, loop_vars >>

\* line 147: the finally of save runs cleanup(f.name)
ConcCleanup(i) ==
    /\ conc[i].pc = "cleanup"
    /\ conc' = [conc EXCEPT ![i].pc = "done"]
    /\ conc_fs' = cleanup(conc_fs, conc[i].temp_name)
    /\ conc_events' = conc_events
           \cup Accesses(i, "delete",
                         DOMAIN conc_fs \ DOMAIN cleanup(conc_fs, conc[i].temp_name))
    /\ UNCHANGED << run_vars, text_vars, cmd_vars, loop_vars >>

ConcNext ==
    \E i \in Invocations :
        \/ ConcSave(i)
        \/ ConcRunFails(i)
        \/ ConcRun(i)
        \/ ConcRead(i)
        \/ ConcCleanup(i)

ConcSpec == ConcInit /\ [][ConcNext]_vars

\* invocation i holds its temp files: it has created them and its cleanup
\* has not run yet
Holding(i) == conc # << >> /\ conc[i].pc \in {"spawn", "read", "cleanup"}
\* path p is a prefix of path q
PathPrefix(p, q) == p.dir = q.dir /\ IsPrefix(p.name, q.name)

-----------------------------------------------------------------------------
(* Loading the module: every top-level statement before line 573 is an      *)
(* import from the standard library, an assignment or a definition whose    *)
(* defaults are defined, so the loading reaches the loop of lines 573-584.  *)
(* What the child process runs is not part of the model: a child is a       *)
(* process that runs until it exits, if it ever does.                       *)

\* most children the model lets the loop spawn
MaxSpawns == 3
\* clock ticks that make up the timeout of process.wait (line 581)
WaitTicks == 2

NewChild == [state |-> "running", expired |-> FALSE, signalled |-> FALSE]

LoopInit ==
    /\ RunIdle /\ TextIdle /\ CmdIdle /\ ConcIdle
    /\ loop_pc = "spawn"
    /\ children = << >>
    /\ elapsed = 0
    /\ loop_error = None

\* lines 575-578: Popen starts a child in a session of its own
LoopPopen ==
    /\ loop_pc = "spawn"
    /\ Len(children) < MaxSpawns
    /\ children' = Append(children, NewChild)
    /\ elapsed' = 0
    /\ loop_pc' = "wait"
    /\ UNCHANGED loop_error
    /\ UNCHANGED << run_vars, text_vars, cmd_vars, conc_vars >>

\* lines 575-578: Popen raises OSError (no `python` on the search path, no
\* process or memory to be had); nothing catches it, so the loading ends
\* with that exception
LoopPopenFails ==
    /\ loop_pc = "spawn"
    /\ \E errno \in Errnos : loop_error' = Some(errno)
    /\ loop_pc' = "raised"
    /\ UNCHANGED << children, elapsed >>
    /\ UNCHANGED << run_vars, text_vars, cmd_vars, conc_vars >>

\* line 581: process.wait goes on while the child runs and the timeout has
\* not been reached
LoopTick ==
    /\ loop_pc = "wait"
    /\ children[Len(children)].state = "running"
    /\ elapsed < WaitTicks
    /\ elapsed' = elapsed + 1
    /\ UNCHANGED << loop_pc, children, loop_error >>
    /\ UNCHANGED << run_vars, text_vars, cmd_vars, conc_vars >>

\* line 581: process.wait returns, the child has exited
LoopWaitReturns ==
    /\ loop_pc = "wait"
    /\ children[Len(children)].state = "exited"
    /\ loop_pc' = "sleep"
    /\ UNCHANGED << children, elapsed, loop_error >>
    /\ UNCHANGED << run_vars, text_vars, cmd_vars, conc_vars >>

\* lines 581-582: process.wait raises TimeoutExpired, which is caught
LoopWaitExpires ==
    /\ loop_pc = "wait"
    /\ children[Len(children)].state = "running"
    /\ elapsed = WaitTicks
    /\ children' = [children EXCEPT ![Len(children)].expired = TRUE]
    /\ loop_pc' = "kill"
    /\ UNCHANGED << elapsed, loop_error >>
    /\ UNCHANGED << run_vars, text_vars, cmd_vars, conc_vars >>

\* a plausible slip: the expiry is caught and nothing is signalled
KillpgNothing(cs, i) == cs

\* line 583: os.killpg(os.getpgid(process.pid), signal.SIGTERM)
killpg(cs, i) == [cs EXCEPT ![i].signalled = TRUE]

LoopKillpg ==
    /\ loop_pc = "kill"
    /\ children' = killpg(children, Len(children))
    /\ loop_pc' = "sleep"
    /\ UNCHANGED << elapsed, loop_error >>
    /\ UNCHANGED << run_vars, text_vars, cmd_vars, conc_vars >>

\* line 584: sleep(1), then the next iteration
LoopSleep ==
    /\ loop_pc = "sleep"
    /\ loop_pc' = "spawn"
    /\ UNCHANGED << children, elapsed, loop_error >>
    /\ UNCHANGED << run_vars, text_vars, cmd_vars, conc_vars >>

\* a child exits, by itself or on the signal; it need not ever do so
ChildExit ==
    /\ \E i \in 1..Len(children) :
         /\ children[i].state = "running"
         /\ children' = [children EXCEPT ![i].state = "exited"]
    /\ UNCHANGED << loop_pc, elapsed, loop_error >>
    /\ UNCHANGED << run_vars, text_vars, cmd_vars, conc_vars >>

\* the steps of the interpreter that loads the module
LoopProgram ==
    \/ LoopPopen
    \/ LoopPopenFails
    \/ LoopTick
    \/ LoopWaitReturns
    \/ LoopWaitExpires
    \/ LoopKillpg
    \/ LoopSleep

LoopNext == LoopProgram \/ ChildExit

\* the interpreter keeps running and the clock keeps ticking; a child is
\* under no obligation to exit
LoopSpec == LoopInit /\ [][LoopNext]_vars /\ WF_vars(LoopProgram)

\* the loading has ended with an exception
LoadRaised == loop_pc = "raised"

\* what holds at every moment of the loading
LoopShape ==
    \* control is in the loop or has left it by an exception: it never
    \* gets past the loop, back to an importer or into main()
    /\ loop_pc \in {"spawn", "wait", "kill", "sleep", "raised"}
    /\ LoadRaised = (loop_error # None)
    \* a wait lasts no longer than the timeout
    /\ elapsed <= WaitTicks
    \* one child per iteration: every child but the one being waited for
    \* has exited or has outlasted its wait
    /\ \A i \in 1..Len(children) :
           /\ (i < Len(children) \/ loop_pc \in {"spawn", "sleep", "raised"}) =>
                  (children[i].state = "exited" \/ children[i].expired)
           \* the process group is signalled on expiry, and only then
           /\ children[i].signalled => children[i].expired
           /\ (children[i].expired /\ (i < Len(children) \/ loop_pc # "kill")) =>
                  children[i].signalled
    /\ loop_pc \in {"wait", "kill", "sleep"} => children # << >>

\* C15 as stated: the loading never ends, each iteration spawns one child,
\* waits for it no longer than the timeout (signalling its process group
\* on expiry), sleeps and starts over, and the number of children spawned
\* grows without bound (here: up to the most the model allows).
C15_NeverCompletes ==
    /\ [](LoopShape /\ ~LoadRaised)
    /\ <>(Len(children) = MaxSpawns)

\* C15, amended: the loading never completes normally; it ends only when
\* Popen raises OSError, which nothing catches.  Until then each iteration
\* spawns one child, waits for it no longer than the timeout (signalling
\* its process group on expiry), sleeps and starts over; so either the
\* loading ends with that exception or the number of children spawned
\* keeps growing (here: up to the most the model allows).
C15_EndsOnlyByException ==
    /\ []LoopShape
    /\ <>(LoadRaised \/ Len(children) = MaxSpawns)

C15_Witness ==
    /\ LoadRaised
    /\ Len(children) = 2
    /\ children[1].signalled /\ children[1].state = "running"
    /\ children[2].state = "exited" /\ ~children[2].expired

=============================================================================
